---- MODULE Spec2Model ----
(***************************************************************************)
(* Model of main.js: a read-only HTTP API over a JSON dataset file.        *)
(*                                                                         *)
(* State: the dataset file on disk (edited by an external process) and the *)
(* request contexts of the connections the server is handling.  A request  *)
(* runs through the middleware chain of main.js: the request ID            *)
(* middleware, then the first matching route handler; getAllData and       *)
(* getItemByGuid suspend at `await fs.readFile` and resume when the read   *)
(* settles.  Errors thrown in a handler are passed by next(error) to the   *)
(* error handling middleware.                                              *)
(*                                                                         *)
(* The dataset file is a sequence of JSON tokens (brackets and values; the *)
(* separating commas are elided).  The editor writes an array document of  *)
(* records and nulls that may lack its opening or closing bracket, which   *)
(* gives datasets, non-array documents and unparseable documents; records  *)
(* may share a guid.  JSON values are records of one shape                 *)
(* [type, guid, school, items]; strings that the code inspects character   *)
(* by character (identifiers, request ids) are sequences of characters.    *)
(***************************************************************************)
EXTENDS Integers, Sequences, FiniteSets, TLC

VARIABLES
    file,      \* the dataset file on disk: [exists, text]
    req,       \* the request context of each connection
    edited,    \* history: the file has been edited since the server started
    probe,     \* a call of isValidGuid: [arg, edits, result]
    server     \* the process: "listening", "closing" or "exited"

vars == <<file, req, edited, probe, server>>

----------------------------------------------------------------------------
(* Bounds *)

MaxRecords == 2        \* values (records, nulls) in the dataset file
MaxTime == 2           \* values of Date.now()
MaxCharEdits == 1      \* characters changed in an argument of isValidGuid

Times == 1..MaxTime

\* the connections the server handles; Serial is a single client
Connections == {"c1", "c2"}
Serial == {"c1"}

----------------------------------------------------------------------------
(* HTTP status codes, main.js:13-18 *)

HTTP_STATUS == [OK |-> 200, BAD_REQUEST |-> 400, NOT_FOUND |-> 404,
                INTERNAL_SERVER_ERROR |-> 500]

\* `undefined` for a numeric property (falsy, like 0)
Undefined == 0

----------------------------------------------------------------------------
(* Strings as character sequences *)

HexChars == {"0", "1", "2", "3", "4", "5", "6", "7", "8", "9",
             "a", "b", "c", "d", "e", "f"}
HexCharsUpper == {"A", "B", "C", "D", "E", "F"}

\* the length of each hexadecimal group of GUID_REGEX, main.js:79
GuidGroups == <<8, 4, 4, 4, 12>>

RECURSIVE Repeat(_, _)
Repeat(c, n) == IF n = 0 THEN <<>> ELSE <<c>> \o Repeat(c, n - 1)

\* a string in the 8-4-4-4-12 layout whose every digit is c
Fill(c) == Repeat(c, 8) \o <<"-">> \o Repeat(c, 4) \o <<"-">> \o Repeat(c, 4)
           \o <<"-">> \o Repeat(c, 4) \o <<"-">> \o Repeat(c, 12)

GuidLower == Fill("a")
GuidUpper == Fill("A")
GuidZero == Fill("0")
GuidBadChar == [Fill("a") EXCEPT ![36] = "g"]
GuidShort == <<"i", "n", "v", "a", "l", "i", "d", "-", "g", "u", "i", "d">>
HealthSegment == <<"h", "e", "a", "l", "t", "h">>

\* decimal rendering of a natural number (template literal `${Date.now()}`)
DigitChar == <<"0", "1", "2", "3", "4", "5", "6", "7", "8", "9">>
RECURSIVE Digits(_)
Digits(n) == IF n < 10 THEN <<DigitChar[n + 1]>>
             ELSE Digits(n \div 10) \o <<DigitChar[(n % 10) + 1]>>

----------------------------------------------------------------------------
(* GUID validation, main.js:77-88 *)

\* mutation: the character class runs one letter too far, [0-9a-g]
IsHexDigitThroughG(c) == c \in HexChars \cup HexCharsUpper \cup {"g", "G"}

\* /i flag: a hexadecimal digit of either case
IsHexDigit(c) == c \in HexChars \cup HexCharsUpper

\* the positions of the four hyphens in the layout of GuidGroups
RECURSIVE HyphenPositions(_)
HyphenPositions(k) ==
    IF k = 0 THEN {}
    ELSE LET prev == HyphenPositions(k - 1)
             start == IF k = 1 THEN 0
                      ELSE CHOOSE p \in prev : \A q \in prev : q <= p
         IN prev \cup {start + GuidGroups[k] + 1}

RECURSIVE SumSeq(_)
SumSeq(s) == IF s = <<>> THEN 0 ELSE Head(s) + SumSeq(Tail(s))

GuidLength == SumSeq(GuidGroups) + Len(GuidGroups) - 1

\* GUID_REGEX.test(guid): anchored at both ends
GUID_REGEX(guid) ==
    /\ Len(guid) = GuidLength
    /\ \A i \in 1..Len(guid) :
          IF i \in HyphenPositions(Len(GuidGroups) - 1)
          THEN guid[i] = "-"
          ELSE IsHexDigit(guid[i])

\* a JavaScript value: its typeof and the string it coerces to
StringValue(chars) == [type |-> "string", chars |-> chars]
\* an array of one string coerces to that string
ArrayOfString(chars) == [type |-> "object", chars |-> chars]

\* mutation: the typeof test is left out and RegExp.test coerces its argument
isValidGuidNoTypeCheck(guid) == GUID_REGEX(guid.chars)

\* typeof guid === 'string' && GUID_REGEX.test(guid)
isValidGuid(guid) == guid.type = "string" /\ GUID_REGEX(guid.chars)

----------------------------------------------------------------------------
(* JSON *)

NullValue == [type |-> "null", guid |-> <<>>, school |-> "", items |-> <<>>]
ObjectValue(g, s) == [type |-> "object", guid |-> g, school |-> s,
                      items |-> <<>>]
ArrayValue(xs) == [type |-> "array", guid |-> <<>>, school |-> "",
                   items |-> xs]

\* tokens of the dataset file
LBracket == [t |-> "[", guid |-> <<>>, school |-> ""]
RBracket == [t |-> "]", guid |-> <<>>, school |-> ""]
NullToken == [t |-> "null", guid |-> <<>>, school |-> ""]
RecordToken(g, s) == [t |-> "object", guid |-> g, school |-> s]

Record1 == RecordToken(GuidLower, "s1")
Record2 == RecordToken(GuidLower, "s2")
Record3 == RecordToken(GuidUpper, "s3")

RecordTokens == {Record1, Record2, Record3}
Tokens == {LBracket, RBracket, NullToken} \cup RecordTokens

\* the dataset shipped with the service: an array of records
InitialText == <<LBracket, Record1, Record3, RBracket>>

\* JSON.parse, by recursive descent from position i:
\* [ok, value, next] or, on a syntax error, [ok |-> FALSE, ...]
ParseFail(msg) == [ok |-> FALSE, value |-> NullValue, next |-> 0,
                   message |-> msg]
ParseOk(v, n) == [ok |-> TRUE, value |-> v, next |-> n, message |-> ""]

RECURSIVE ParseValue(_, _), ParseElements(_, _, _)
ParseValue(text, i) ==
    IF i > Len(text) THEN ParseFail("Unexpected end of JSON input")
    ELSE LET tok == text[i] IN
         CASE tok.t = "null" -> ParseOk(NullValue, i + 1)
           [] tok.t = "object" -> ParseOk(ObjectValue(tok.guid, tok.school),
                                          i + 1)
           [] tok.t = "[" -> ParseElements(text, i + 1, <<>>)
           [] OTHER -> ParseFail("Unexpected token")

ParseElements(text, i, acc) ==
    IF i > Len(text) THEN ParseFail("Unexpected end of JSON input")
    ELSE IF text[i].t = "]" THEN ParseOk(ArrayValue(acc), i + 1)
    ELSE LET e == ParseValue(text, i) IN
         IF e.ok THEN ParseElements(text, e.next, Append(acc, e.value))
         ELSE e

JSONParse(text) ==
    LET r == ParseValue(text, 1) IN
    IF ~r.ok THEN r
    ELSE IF r.next <= Len(text) THEN ParseFail("Unexpected token")
    ELSE r

----------------------------------------------------------------------------
(* Errors, main.js:44-75 *)

\* a message built by a template literal: its fixed text and the
\* interpolated value that follows it
Message(text, arg) == [text |-> text, arg |-> arg]
NoMessage == Message("", <<>>)

\* new Error(message): no statusCode property
Error(message) == [name |-> "Error", message |-> message,
                   statusCode |-> Undefined]
\* a TypeError raised by the runtime
TypeError(text) == [name |-> "TypeError", message |-> Message(text, <<>>),
                    statusCode |-> Undefined]
NotFoundError(message) == [name |-> "NotFoundError", message |-> message,
                           statusCode |-> HTTP_STATUS.NOT_FOUND]
ValidationError(message) == [name |-> "ValidationError", message |-> message,
                             statusCode |-> HTTP_STATUS.BAD_REQUEST]

----------------------------------------------------------------------------
(* Data Loader, main.js:95-104 *)

Returned(v) == [ok |-> TRUE, value |-> v, error |-> Error(NoMessage)]
Thrown(e) == [ok |-> FALSE, value |-> NullValue, error |-> e]

\* fs.readFile(filePath, 'utf8') on the file as it is when the read settles
readFile(f) == IF f.exists THEN [ok |-> TRUE, content |-> f.text, message |-> ""]
               ELSE [ok |-> FALSE, content |-> <<>>,
                     message |-> "ENOENT: no such file or directory"]

\* mutation: the catch block answers an empty dataset instead of throwing
loadDataOrEmpty(f) ==
    IF f.exists /\ JSONParse(f.text).ok
    THEN Returned(JSONParse(f.text).value)
    ELSE Returned(ArrayValue(<<>>))

\* mutation: the dataset is parsed once, when the module is loaded
loadDataAtStartup(f) == Returned(JSONParse(InitialText).value)

\* the try block returns whatever JSON.parse yields; the catch block wraps
\* the message of a read or parse error in a new Error
loadData(f) ==
    LET fileContent == readFile(f) IN
    IF ~fileContent.ok
    THEN Thrown(Error(Message("Failed to load data file: ",
                              <<fileContent.message>>)))
    ELSE LET parsed == JSONParse(fileContent.content) IN
         IF parsed.ok THEN Returned(parsed.value)
         ELSE Thrown(Error(Message("Failed to load data file: ",
                                   <<parsed.message>>)))

----------------------------------------------------------------------------
(* Responses *)

NoResponse == [status |-> 0, body |-> [kind |-> "none"]]
JsonBody(v) == [kind |-> "json", value |-> v]
ErrorBody(message, statusCode, requestId) ==
    [kind |-> "error",
     error |-> [message |-> message, statusCode |-> statusCode,
                requestId |-> requestId]]

\* res.status(HTTP_STATUS.OK).json({status: 'ok', timestamp: ...}),
\* main.js:125-130
HealthHandler(now) ==
    [status |-> HTTP_STATUS.OK,
     body |-> [kind |-> "health", status |-> "ok", timestamp |-> now]]

\* mutation: the status of the error is ignored
ErrorHandlerAlways500(err, id) ==
    [status |-> HTTP_STATUS.INTERNAL_SERVER_ERROR,
     body |-> ErrorBody(IF err.message # NoMessage THEN err.message
                        ELSE Message("Internal server error", <<>>),
                        HTTP_STATUS.INTERNAL_SERVER_ERROR, id)]

\* error handling middleware, main.js:180-199
ErrorHandler(err, id) ==
    LET statusCode == IF err.statusCode # Undefined THEN err.statusCode
                      ELSE HTTP_STATUS.INTERNAL_SERVER_ERROR
        message == IF err.message # NoMessage THEN err.message
                   ELSE Message("Internal server error", <<>>)
    IN [status |-> statusCode, body |-> ErrorBody(message, statusCode, id)]

\* req.url of a path given by its segments
RECURSIVE UrlString(_)
UrlString(url) == IF url = <<>> THEN <<"/">>
                  ELSE IF Len(url) = 1 THEN <<"/">> \o url[1]
                  ELSE <<"/">> \o Head(url) \o UrlString(Tail(url))

\* 404 handler for undefined routes, main.js:202-210
NotFoundHandler(method, url, id) ==
    [status |-> HTTP_STATUS.NOT_FOUND,
     body |-> ErrorBody(Message("Route not found: ",
                                <<method, " ">> \o UrlString(url)),
                        HTTP_STATUS.NOT_FOUND, id)]

----------------------------------------------------------------------------
(* Routing, main.js:125, 176, 177, 202: the first layer that matches *)

\* mutation: the routes are registered for every method (app.all)
RouteAnyMethod(method, url) ==
    IF url = <<HealthSegment>> THEN "health"
    ELSE IF url = <<>> THEN "getAllData"
    ELSE IF Len(url) = 1 THEN "getItemByGuid"
    ELSE "notFound"

\* mutation: /:guid is registered before /health
RouteGuidFirst(method, url) ==
    IF method = "GET" /\ url = <<>> THEN "getAllData"
    ELSE IF method = "GET" /\ Len(url) = 1 THEN "getItemByGuid"
    ELSE "notFound"

Route(method, url) ==
    IF method = "GET" /\ url = <<HealthSegment>> THEN "health"
    ELSE IF method = "GET" /\ url = <<>> THEN "getAllData"
    ELSE IF method = "GET" /\ Len(url) = 1 THEN "getItemByGuid"
    ELSE "notFound"

----------------------------------------------------------------------------
(* Request handlers, main.js:138-173 *)

\* the lower-case spelling of a string
LowerCase(str) ==
    [i \in 1..Len(str) |->
        CASE str[i] = "A" -> "a" [] str[i] = "B" -> "b" [] str[i] = "C" -> "c"
          [] str[i] = "D" -> "d" [] str[i] = "E" -> "e" [] str[i] = "F" -> "f"
          [] OTHER -> str[i]]

\* mutation: the comparison ignores letter case
RECURSIVE findIgnoreCase(_, _)
findIgnoreCase(items, guid) ==
    IF items = <<>> THEN [kind |-> "undefined", item |-> NullValue]
    ELSE LET item == Head(items) IN
         IF item.type = "null" THEN [kind |-> "throw", item |-> NullValue]
         ELSE IF item.type = "object"
                 /\ LowerCase(item.guid) = LowerCase(guid)
              THEN [kind |-> "found", item |-> item]
              ELSE findIgnoreCase(Tail(items), guid)

\* mutation: the last match wins
RECURSIVE findLast(_, _)
findLast(items, guid) ==
    IF items = <<>> THEN [kind |-> "undefined", item |-> NullValue]
    ELSE LET item == items[Len(items)]
             rest == SubSeq(items, 1, Len(items) - 1)
         IN IF item.type = "object" /\ item.guid = guid
            THEN [kind |-> "found", item |-> item]
            ELSE findLast(rest, guid)

\* data.find((item) => item.guid === guid) on an array: the first element
\* whose guid is the identifier; reading .guid of null throws
RECURSIVE find(_, _)
find(items, guid) ==
    IF items = <<>> THEN [kind |-> "undefined", item |-> NullValue]
    ELSE LET item == Head(items) IN
         IF item.type = "null" THEN [kind |-> "throw", item |-> NullValue]
         ELSE IF item.type = "object" /\ item.guid = guid
              THEN [kind |-> "found", item |-> item]
              ELSE find(Tail(items), guid)

\* mutation: the first record is left out of the list
getAllDataResumeSkipFirst(loaded, id) ==
    IF loaded.ok
    THEN [status |-> HTTP_STATUS.OK,
          body |-> JsonBody(IF loaded.value.type = "array"
                               /\ loaded.value.items # <<>>
                            THEN ArrayValue(Tail(loaded.value.items))
                            ELSE loaded.value)]
    ELSE ErrorHandler(loaded.error, id)

\* getAllData after `await loadData()`
getAllDataResume(loaded, id) ==
    IF loaded.ok
    THEN [status |-> HTTP_STATUS.OK, body |-> JsonBody(loaded.value)]
    ELSE ErrorHandler(loaded.error, id)

\* getItemByGuid after `await loadData()`
getItemByGuidResume(loaded, guid, id) ==
    IF ~loaded.ok THEN ErrorHandler(loaded.error, id)
    ELSE IF loaded.value.type # "array"
    THEN ErrorHandler(TypeError(IF loaded.value.type = "null"
        THEN "Cannot read properties of null (reading 'find')"
        ELSE "data.find is not a function"), id)
    ELSE LET found == find(loaded.value.items, guid) IN
         CASE found.kind = "throw" ->
                ErrorHandler(TypeError(
                    "Cannot read properties of null (reading 'guid')"), id)
           [] found.kind = "undefined" ->
                ErrorHandler(NotFoundError(Message("Item not found: ", guid)),
                             id)
           [] OTHER ->
                [status |-> HTTP_STATUS.OK, body |-> JsonBody(found.item)]

\* the error a catch block passes to next(error), if any
NoCatch == [thrown |-> FALSE, error |-> Error(NoMessage)]
Caught(e) == [thrown |-> TRUE, error |-> e]

\* what the catch block of getAllData catches, main.js:142-144
getAllDataCaught(loaded) ==
    IF loaded.ok THEN NoCatch ELSE Caught(loaded.error)

\* what the catch block of getItemByGuid catches after the load,
\* main.js:170-172
getItemByGuidCaught(loaded, guid) ==
    IF ~loaded.ok THEN Caught(loaded.error)
    ELSE IF loaded.value.type # "array"
    THEN Caught(TypeError(IF loaded.value.type = "null"
        THEN "Cannot read properties of null (reading 'find')"
        ELSE "data.find is not a function"))
    ELSE LET found == find(loaded.value.items, guid) IN
         CASE found.kind = "throw" ->
                Caught(TypeError(
                    "Cannot read properties of null (reading 'guid')"))
           [] found.kind = "undefined" ->
                Caught(NotFoundError(Message("Item not found: ", guid)))
           [] OTHER -> NoCatch

----------------------------------------------------------------------------
(* The requests the clients send *)

Methods == {"GET", "POST"}
Identifiers == {GuidLower, GuidUpper, GuidZero, GuidBadChar, GuidShort}
Urls == {<<>>, <<HealthSegment>>, <<GuidShort, HealthSegment>>}
        \cup {<<g>> : g \in Identifiers}

\* Math.random().toString(36).substr(2, 9): empty when the draw is 0
RandomSuffixes == {<<>>, <<"k">>}

\* header is the X-Request-ID response header, loads counts the calls of
\* loadData, open tells that the connection is established; afterEdit and
\* afterSignal record that the request arrived after an edit, after SIGTERM;
\* caught is the error passed to next(error); overlap records that another
\* request was suspended at its read when this one suspended at its own
Idle == [pc |-> "idle", method |-> "", url |-> <<>>, id |-> <<>>,
         header |-> <<>>, loads |-> 0, res |-> NoResponse,
         afterEdit |-> FALSE, open |-> TRUE, afterSignal |-> FALSE,
         caught |-> NoCatch, overlap |-> FALSE]
Closed == [Idle EXCEPT !.open = FALSE]

\* no call of isValidGuid has been made
NoProbe == [arg |-> StringValue(<<>>), edits |-> 0, result |-> "none"]

----------------------------------------------------------------------------
(* Initial state: the server is listening, the shipped dataset is on disk *)

Init == /\ file = [exists |-> TRUE, text |-> InitialText]
        /\ req = [s \in Connections |-> Closed]
        /\ edited = FALSE
        /\ probe = NoProbe
        /\ server = "listening"

----------------------------------------------------------------------------
(* The external process that edits the dataset file *)

\* the documents the editor writes: an optional opening bracket, at most
\* MaxRecords values, an optional closing bracket
CanAppend(text, tok) ==
    LET closed == \E i \in 1..Len(text) : text[i].t = "]"
        values == {i \in 1..Len(text) : text[i].t \notin {"[", "]"}}
    IN CASE tok.t = "[" -> text = <<>>
         [] tok.t = "]" -> ~closed
         [] OTHER -> ~closed /\ Cardinality(values) < MaxRecords

AppendToken(tok) ==
    /\ file.exists
    /\ CanAppend(file.text, tok)
    /\ file' = [file EXCEPT !.text = Append(@, tok)]
    /\ edited' = TRUE
    /\ UNCHANGED <<req, probe, server>>

Truncate ==
    /\ file.exists
    /\ file.text # <<>>
    /\ file' = [file EXCEPT !.text = SubSeq(@, 1, Len(@) - 1)]
    /\ edited' = TRUE
    /\ UNCHANGED <<req, probe, server>>

DeleteFile ==
    /\ file.exists
    /\ file' = [exists |-> FALSE, text |-> <<>>]
    /\ edited' = TRUE
    /\ UNCHANGED <<req, probe, server>>

CreateFile ==
    /\ ~file.exists
    /\ file' = [exists |-> TRUE, text |-> <<>>]
    /\ edited' = TRUE
    /\ UNCHANGED <<req, probe, server>>

----------------------------------------------------------------------------
(* The server *)

\* server.listen, main.js:217: a client connects to the listening server
Connect(s) ==
    /\ server = "listening"
    /\ ~req[s].open
    /\ req' = [req EXCEPT ![s] = Idle]
    /\ UNCHANGED <<file, edited, probe, server>>

\* an idle connection ends: the client closes it, its keep-alive time runs
\* out, or server.close() closes it as idle
Disconnect(s) ==
    /\ req[s].open
    /\ req[s].pc = "idle"
    /\ req' = [req EXCEPT ![s] = Closed]
    /\ UNCHANGED <<file, edited, probe, server>>

\* a request reaches the app on an established connection
Arrive(s, method, url) ==
    /\ server # "exited"
    /\ req[s].open
    /\ req[s].pc = "idle"
    /\ req' = [req EXCEPT ![s] = [Idle EXCEPT !.pc = "arrived",
                                              !.method = method,
                                              !.url = url,
                                              !.afterEdit = edited,
                                              !.afterSignal =
                                                  (server # "listening")]]
    /\ UNCHANGED <<file, edited, probe, server>>

\* mutation: the id is the random part alone
RequestIdSuffixOnly(now, suffix) == suffix

\* req.id of `${Date.now()}-${Math.random().toString(36).substr(2, 9)}`
RequestId(now, suffix) == Digits(now) \o <<"-">> \o suffix

\* the other requests now suspended at their read of the file
Suspended(s) ==
    {c \in Connections \ {s} : req[c].pc \in {"getAllData", "getItemByGuid"}}

\* mutation: the id is kept in one variable of the module, which every
\* request in flight reads when its response is written
RequestIdMiddlewareShared(s, now, suffix) ==
    /\ req[s].pc = "arrived"
    /\ req' = [c \in Connections |->
                 IF c = s
                 THEN [req[c] EXCEPT !.id = RequestId(now, suffix),
                                     !.header = RequestId(now, suffix),
                                     !.pc = "routing"]
                 ELSE IF c \in Suspended(s)
                 THEN [req[c] EXCEPT !.id = RequestId(now, suffix)]
                 ELSE req[c]]
    /\ UNCHANGED <<file, edited, probe, server>>

\* request ID middleware, main.js:110-114
RequestIdMiddleware(s, now, suffix) ==
    /\ req[s].pc = "arrived"
    /\ req' = [req EXCEPT ![s].id = RequestId(now, suffix),
                          ![s].header = RequestId(now, suffix),
                          ![s].pc = "routing"]
    /\ UNCHANGED <<file, edited, probe, server>>

\* app.get('/health', ...), main.js:125-130
Health(s, now) ==
    /\ req[s].pc = "routing"
    /\ Route(req[s].method, req[s].url) = "health"
    /\ req' = [req EXCEPT ![s].res = HealthHandler(now), ![s].pc = "done"]
    /\ UNCHANGED <<file, edited, probe, server>>

\* getAllData up to `await loadData()`, main.js:138-140
GetAllData(s) ==
    /\ req[s].pc = "routing"
    /\ Route(req[s].method, req[s].url) = "getAllData"
    /\ req' = [req EXCEPT ![s].loads = @ + 1,
                          ![s].overlap = Suspended(s) # {},
                          ![s].pc = "getAllData"]
    /\ UNCHANGED <<file, edited, probe, server>>

\* the read settles and getAllData runs to its end, main.js:140-144
GetAllDataLoaded(s) ==
    /\ req[s].pc = "getAllData"
    /\ req' = [req EXCEPT ![s].res = getAllDataResume(loadData(file),
                                                      req[s].id),
                          ![s].caught = getAllDataCaught(loadData(file)),
                          ![s].pc = "done"]
    /\ UNCHANGED <<file, edited, probe, server>>

\* getItemByGuid up to `await loadData()`, main.js:153-162
GetItemByGuid(s) ==
    /\ req[s].pc = "routing"
    /\ Route(req[s].method, req[s].url) = "getItemByGuid"
    /\ LET guid == req[s].url[1] IN
       IF ~isValidGuid(StringValue(guid))
       THEN req' = [req EXCEPT
                ![s].res = ErrorHandler(
                    ValidationError(Message("Invalid GUID format: ", guid)),
                    req[s].id),
                ![s].caught = Caught(
                    ValidationError(Message("Invalid GUID format: ", guid))),
                ![s].pc = "done"]
       ELSE req' = [req EXCEPT ![s].loads = @ + 1,
                               ![s].overlap = Suspended(s) # {},
                               ![s].pc = "getItemByGuid"]
    /\ UNCHANGED <<file, edited, probe, server>>

\* the read settles and getItemByGuid runs to its end, main.js:162-172
GetItemByGuidLoaded(s) ==
    /\ req[s].pc = "getItemByGuid"
    /\ req' = [req EXCEPT ![s].res = getItemByGuidResume(loadData(file),
                                         req[s].url[1], req[s].id),
                          ![s].caught = getItemByGuidCaught(loadData(file),
                                                            req[s].url[1]),
                          ![s].pc = "done"]
    /\ UNCHANGED <<file, edited, probe, server>>

\* no route matched, main.js:202-210
RouteNotFound(s) ==
    /\ req[s].pc = "routing"
    /\ Route(req[s].method, req[s].url) = "notFound"
    /\ req' = [req EXCEPT ![s].res = NotFoundHandler(req[s].method,
                                         req[s].url, req[s].id),
                          ![s].pc = "done"]
    /\ UNCHANGED <<file, edited, probe, server>>

\* the response has been sent and the request context is discarded
Finish(s) ==
    /\ req[s].pc = "done"
    /\ req' = [req EXCEPT ![s] = Idle]
    /\ UNCHANGED <<file, edited, probe, server>>

Next ==
    \/ \E tok \in Tokens : AppendToken(tok)
    \/ Truncate
    \/ DeleteFile
    \/ CreateFile
    \/ \E s \in Serial, method \in Methods, url \in Urls : Arrive(s, method, url)
    \/ \E s \in Serial, now \in Times, suffix \in RandomSuffixes :
          RequestIdMiddleware(s, now, suffix)
    \/ \E s \in Serial, now \in Times : Health(s, now)
    \/ \E s \in Serial : GetAllData(s)
    \/ \E s \in Serial : GetAllDataLoaded(s)
    \/ \E s \in Serial : GetItemByGuid(s)
    \/ \E s \in Serial : GetItemByGuidLoaded(s)
    \/ \E s \in Serial : RouteNotFound(s)
    \/ \E s \in Serial : Finish(s)
    \/ \E s \in Serial : Connect(s)
    \/ \E s \in Serial : Disconnect(s)

Spec == Init /\ [][Next]_vars

----------------------------------------------------------------------------
(* Several clients and the termination signal, main.js:216-229 *)

\* the documents a deployment replaces the dataset with
DeployedTexts == {InitialText, <<LBracket, Record2, RBracket>>}

\* the file is replaced as a whole (a rename over it)
ReplaceFile(text) ==
    /\ file # [exists |-> TRUE, text |-> text]
    /\ file' = [exists |-> TRUE, text |-> text]
    /\ edited' = TRUE
    /\ UNCHANGED <<req, probe, server>>

\* process.on('SIGTERM'): server.close(callback) stops the listener; the
\* connections that are established stay
Sigterm ==
    /\ server \in {"listening", "closing"}
    /\ server' = "closing"
    /\ UNCHANGED <<file, req, edited, probe>>

\* mutation: process.exit(0) follows server.close() instead of being in
\* its callback
ExitOnSignal == server = "closing"

\* the callback of server.close runs on the 'close' event, which the
\* server emits once it has stopped listening and no connection is left
CloseCallbackRuns == server = "closing" /\ \A c \in Connections : ~req[c].open

\* process.exit(0) in the callback of server.close
ServerClosed ==
    /\ CloseCallbackRuns
    /\ server' = "exited"
    /\ UNCHANGED <<file, req, edited, probe>>

ClientUrls == {<<>>, <<GuidLower>>, <<GuidZero>>, <<GuidShort>>}
ClientSuffixes == {<<"k">>}

NextConcurrent ==
    \/ \E text \in DeployedTexts : ReplaceFile(text)
    \/ DeleteFile
    \/ \E s \in Connections : Connect(s)
    \/ \E s \in Connections : Disconnect(s)
    \/ \E s \in Connections, url \in ClientUrls : Arrive(s, "GET", url)
    \/ \E s \in Connections, now \in Times, suffix \in ClientSuffixes :
          RequestIdMiddleware(s, now, suffix)
    \/ \E s \in Connections : GetAllData(s)
    \/ \E s \in Connections : GetAllDataLoaded(s)
    \/ \E s \in Connections : GetItemByGuid(s)
    \/ \E s \in Connections : GetItemByGuidLoaded(s)
    \/ \E s \in Connections : Finish(s)
    \/ Sigterm
    \/ ServerClosed

SpecConcurrent == Init /\ [][NextConcurrent]_vars

----------------------------------------------------------------------------
(* The Error Responder on any error: besides the errors of the two         *)
(* handlers, the router and the middleware of the framework pass their own *)
(* errors to the error handling middleware (a path that cannot be decoded  *)
(* gives an error with statusCode 400)                                     *)

ForwardedErrors ==
    {[name |-> n, message |-> m, statusCode |-> c] :
        n \in {"Error", "URIError"},
        m \in {NoMessage, Message("Failed to decode param ", <<"%", "E", "0">>)},
        c \in {Undefined, HTTP_STATUS.BAD_REQUEST, HTTP_STATUS.NOT_FOUND,
               HTTP_STATUS.INTERNAL_SERVER_ERROR, 503}}

\* next(err) reaches the error handling middleware, main.js:180-199
ForwardError(s, e) ==
    /\ req[s].pc = "routing"
    /\ req' = [req EXCEPT ![s].res = ErrorHandler(e, req[s].id),
                          ![s].caught = Caught(e),
                          ![s].pc = "done"]
    /\ UNCHANGED <<file, edited, probe, server>>

NextErrorResponder ==
    \/ \E text \in DeployedTexts : ReplaceFile(text)
    \/ DeleteFile
    \/ \E s \in Serial : Connect(s)
    \/ \E s \in Serial : Disconnect(s)
    \/ \E s \in Serial, url \in ClientUrls : Arrive(s, "GET", url)
    \/ \E s \in Serial, now \in Times, suffix \in RandomSuffixes :
          RequestIdMiddleware(s, now, suffix)
    \/ \E s \in Serial : GetAllData(s)
    \/ \E s \in Serial : GetAllDataLoaded(s)
    \/ \E s \in Serial : GetItemByGuid(s)
    \/ \E s \in Serial : GetItemByGuidLoaded(s)
    \/ \E s \in Serial, e \in ForwardedErrors : ForwardError(s, e)
    \/ \E s \in Serial : Finish(s)

SpecErrorResponder == Init /\ [][NextErrorResponder]_vars

----------------------------------------------------------------------------
(* The Identifier Validator on its own: isValidGuid applied to values that *)
(* are a few character edits away from a GUID, from the empty string or    *)
(* from a short word, as strings and as non-strings                        *)

SeedStrings == {GuidLower, GuidUpper, GuidShort, <<>>}
EditChars == {"F", "g", "-"}

\* the caller picks a value
Draw(chars) ==
    /\ probe' = [arg |-> StringValue(chars), edits |-> 0, result |-> "none"]
    /\ UNCHANGED <<file, req, edited, server>>

ReplaceChar(i, c) ==
    /\ probe.edits < MaxCharEdits
    /\ i \in 1..Len(probe.arg.chars)
    /\ probe.arg.chars[i] # c
    /\ probe' = [arg |-> [probe.arg EXCEPT !.chars[i] = c],
                 edits |-> probe.edits + 1, result |-> "none"]
    /\ UNCHANGED <<file, req, edited, server>>

DeleteChar(i) ==
    /\ probe.edits < MaxCharEdits
    /\ i \in 1..Len(probe.arg.chars)
    /\ probe' = [arg |-> [probe.arg EXCEPT
                     !.chars = SubSeq(@, 1, i - 1) \o SubSeq(@, i + 1, Len(@))],
                 edits |-> probe.edits + 1, result |-> "none"]
    /\ UNCHANGED <<file, req, edited, server>>

InsertChar(i, c) ==
    /\ probe.edits < MaxCharEdits
    /\ i \in 0..Len(probe.arg.chars)
    /\ probe' = [arg |-> [probe.arg EXCEPT
                     !.chars = SubSeq(@, 1, i) \o <<c>>
                               \o SubSeq(@, i + 1, Len(@))],
                 edits |-> probe.edits + 1, result |-> "none"]
    /\ UNCHANGED <<file, req, edited, server>>

\* the caller passes an array holding the string instead of the string
WrapInArray ==
    /\ probe.arg.type = "string"
    /\ probe' = [probe EXCEPT !.arg = ArrayOfString(probe.arg.chars),
                              !.result = "none"]
    /\ UNCHANGED <<file, req, edited, server>>

\* isValidGuid(guid), main.js:86-88
Validate ==
    /\ probe.result = "none"
    /\ probe' = [probe EXCEPT !.result = IF isValidGuid(probe.arg)
                                         THEN "accepted" ELSE "rejected"]
    /\ UNCHANGED <<file, req, edited, server>>

NextValidator ==
    \/ \E chars \in SeedStrings : Draw(chars)
    \/ \E i \in 1..(GuidLength + MaxCharEdits), c \in EditChars :
          ReplaceChar(i, c)
    \/ \E i \in 1..(GuidLength + MaxCharEdits) : DeleteChar(i)
    \/ \E i \in 0..(GuidLength + MaxCharEdits), c \in EditChars :
          InsertChar(i, c)
    \/ WrapInArray
    \/ Validate

SpecValidator == Init /\ [][NextValidator]_vars

----------------------------------------------------------------------------
(* The vocabulary of the specification, stated without the code's operators *)

\* GET /{identifier}: one path segment other than /health
IsItemRequest(r) ==
    r.method = "GET" /\ Len(r.url) = 1 /\ r.url # <<HealthSegment>>
IsListRequest(r) == r.method = "GET" /\ r.url = <<>>
IsHealthRequest(r) == r.method = "GET" /\ r.url = <<HealthSegment>>

\* 36 characters, hyphens at 9, 14, 19 and 24, hexadecimal digits elsewhere
WellFormedIdentifier(g) ==
    /\ Len(g) = 36
    /\ \A i \in 1..36 :
          IF i \in {9, 14, 19, 24} THEN g[i] = "-"
          ELSE g[i] \in {"0", "1", "2", "3", "4", "5", "6", "7", "8", "9",
                         "a", "b", "c", "d", "e", "f",
                         "A", "B", "C", "D", "E", "F"}

\* the file holds a dataset: an array whose elements are all records
IsDataset(f) ==
    /\ f.exists
    /\ Len(f.text) >= 2
    /\ f.text[1] = LBracket
    /\ f.text[Len(f.text)] = RBracket
    /\ \A i \in 2..(Len(f.text) - 1) : f.text[i] \in RecordTokens

\* the records of a dataset file, in file order
RecordsOnDisk(f) ==
    [i \in 1..(Len(f.text) - 2) |->
        ObjectValue(f.text[i + 1].guid, f.text[i + 1].school)]

\* the positions of the records on disk whose guid is exactly g
MatchesOnDisk(f, g) ==
    {i \in 1..(Len(f.text) - 2) : f.text[i + 1].guid = g}

\* brackets open minus brackets closed among the first k tokens
Depth(text, k) ==
    Cardinality({i \in 1..k : text[i].t = "["})
    - Cardinality({i \in 1..k : text[i].t = "]"})

\* the text is one JSON value: every proper prefix is inside an array and
\* the whole text closes it
ValidJsonText(text) ==
    /\ Len(text) >= 1
    /\ Depth(text, Len(text)) = 0
    /\ \A k \in 1..(Len(text) - 1) : Depth(text, k) >= 1

\* the Data Loader fails on this file: missing, or not valid JSON
LoadFails(f) == ~f.exists \/ ~ValidJsonText(f.text)

\* this step sends the response of connection s
Completes(s) == req[s].pc # "done" /\ req'[s].pc = "done"

----------------------------------------------------------------------------
(* C1: a GET /{identifier} whose identifier is malformed is answered 400   *)
(* with "Invalid GUID format: <identifier>" and error.statusCode 400, and  *)
(* the Data Loader is never invoked for it, whatever the dataset file is.  *)
C1_MalformedIdentifierIs400 ==
    \A s \in Connections :
        LET r == req[s] IN
        (IsItemRequest(r) /\ ~WellFormedIdentifier(r.url[1])) =>
            /\ r.loads = 0
            /\ r.pc \in {"arrived", "routing", "done"}
            /\ r.pc = "done" =>
                  /\ r.res.status = 400
                  /\ r.res.body.kind = "error"
                  /\ r.res.body.error.message =
                        Message("Invalid GUID format: ", r.url[1])
                  /\ r.res.body.error.statusCode = 400

\* a malformed identifier answered 400 while the dataset file is missing
C1_Witness ==
    \E s \in Connections :
        /\ req[s].pc = "done"
        /\ req[s].method = "GET"
        /\ req[s].url = <<GuidBadChar>>
        /\ req[s].res.status = 400
        /\ req[s].loads = 0
        /\ ~file.exists

(* C2: a GET /{identifier} with a well-formed identifier, answered while   *)
(* the file holds a dataset with a record of exactly that guid, is         *)
(* answered 200 with the first such record in dataset order.               *)
C2_Step ==
    \A s \in Connections :
        LET r == req[s]
            g == r.url[1]
        IN (/\ Completes(s)
            /\ IsItemRequest(r)
            /\ WellFormedIdentifier(g)
            /\ IsDataset(file)
            /\ MatchesOnDisk(file, g) # {}) =>
               LET first == CHOOSE i \in MatchesOnDisk(file, g) :
                                \A j \in MatchesOnDisk(file, g) : i <= j
               IN /\ req'[s].res.status = 200
                  /\ req'[s].res.body.kind = "json"
                  /\ req'[s].res.body.value = RecordsOnDisk(file)[first]
                  /\ req'[s].res.body.value.guid = g

C2_FirstMatchReturned == [][C2_Step]_vars

\* two records share the guid and the first of them was returned
C2_Witness ==
    \E s \in Connections :
        /\ req[s].pc = "done"
        /\ req[s].method = "GET"
        /\ req[s].url = <<GuidLower>>
        /\ file = [exists |-> TRUE,
                   text |-> <<LBracket, Record2, Record1, RBracket>>]
        /\ req[s].res.status = 200
        /\ req[s].res.body.kind = "json"
        /\ req[s].res.body.value = ObjectValue(GuidLower, "s2")

(* C3: a GET /{identifier} with a well-formed identifier, answered while   *)
(* the file holds a dataset without a record of exactly that guid, is      *)
(* answered 404 with "Item not found: <identifier>" and error.statusCode   *)
(* 404, also when a stored guid differs from it only in letter case.       *)
C3_Step ==
    \A s \in Connections :
        LET r == req[s]
            g == r.url[1]
        IN (/\ Completes(s)
            /\ IsItemRequest(r)
            /\ WellFormedIdentifier(g)
            /\ IsDataset(file)
            /\ MatchesOnDisk(file, g) = {}) =>
               /\ req'[s].res.status = 404
               /\ req'[s].res.body.kind = "error"
               /\ req'[s].res.body.error.message =
                     Message("Item not found: ", g)
               /\ req'[s].res.body.error.statusCode = 404

C3_NoMatchIs404 == [][C3_Step]_vars

\* the only stored guid is the lower-case spelling of the requested one
C3_Witness ==
    \E s \in Connections :
        /\ req[s].pc = "done"
        /\ req[s].method = "GET"
        /\ req[s].url = <<GuidUpper>>
        /\ file = [exists |-> TRUE, text |-> <<LBracket, Record1, RBracket>>]
        /\ req[s].res.status = 404
        /\ req[s].res.body.kind = "error"
        /\ req[s].res.body.error.message = Message("Item not found: ",
                                                   GuidUpper)

(* C4: a GET / answered while the file holds a dataset is answered 200     *)
(* with the records of the file: as many as on disk, the same records, in  *)
(* the same order.                                                         *)
C4_Step ==
    \A s \in Connections :
        (/\ Completes(s)
         /\ IsListRequest(req[s])
         /\ IsDataset(file)) =>
            /\ req'[s].res.status = 200
            /\ req'[s].res.body.kind = "json"
            /\ req'[s].res.body.value.type = "array"
            /\ Len(req'[s].res.body.value.items) = Len(file.text) - 2
            /\ req'[s].res.body.value.items = RecordsOnDisk(file)

C4_ListIsTheDataset == [][C4_Step]_vars

\* a list of two records in file order
C4_Witness ==
    \E s \in Connections :
        /\ req[s].pc = "done"
        /\ IsListRequest(req[s])
        /\ file = [exists |-> TRUE,
                   text |-> <<LBracket, Record3, Record1, RBracket>>]
        /\ req[s].res.status = 200
        /\ req[s].res.body.kind = "json"
        /\ req[s].res.body.value.items =
              <<ObjectValue(GuidUpper, "s3"), ObjectValue(GuidLower, "s1")>>

(* C5: when the Data Loader fails (file missing or not valid JSON), GET /  *)
(* and GET /{well-formed identifier} are answered 500 in the error         *)
(* envelope with error.statusCode 500; the load is attempted once per      *)
(* request and the step after a failed load is the response.               *)
C5_Step ==
    \A s \in Connections :
        LET r == req[s] IN
        (IsListRequest(r)
           \/ (IsItemRequest(r) /\ WellFormedIdentifier(r.url[1]))) =>
            /\ req'[s].loads <= 1
            /\ (r.loads = 1 /\ r.pc # "done" /\ req'[s] # r
                   /\ LoadFails(file)) => req'[s].pc = "done"
            /\ (Completes(s) /\ LoadFails(file)) =>
                  /\ req'[s].loads = 1
                  /\ req'[s].res.status = 500
                  /\ req'[s].res.body.kind = "error"
                  /\ req'[s].res.body.error.statusCode = 500

C5_LoadFailureIs500 == [][C5_Step]_vars

\* an unparseable file answered 500 after one load
C5_Witness ==
    \E s \in Connections :
        /\ req[s].pc = "done"
        /\ req[s].method = "GET"
        /\ req[s].url = <<GuidLower>>
        /\ file = [exists |-> TRUE, text |-> <<LBracket, Record1>>]
        /\ req[s].loads = 1
        /\ req[s].res.status = 500
        /\ req[s].res.body.kind = "error"
        /\ req[s].res.body.error.message =
              Message("Failed to load data file: ",
                      <<"Unexpected end of JSON input">>)

(* C6: a dataset file whose top-level JSON value is not an array is a load *)
(* failure: GET / and GET /{well-formed identifier} are answered 500.      *)
NonArrayDocument(f) ==
    f.exists /\ ValidJsonText(f.text) /\ f.text[1] # LBracket

C6_Step ==
    \A s \in Connections :
        LET r == req[s] IN
        (/\ Completes(s)
         /\ IsListRequest(r)
              \/ (IsItemRequest(r) /\ WellFormedIdentifier(r.url[1]))
         /\ NonArrayDocument(file)) =>
            /\ req'[s].res.status = 500
            /\ req'[s].res.body.kind = "error"
            /\ req'[s].res.body.error.statusCode = 500

C6_NonArrayIs500 == [][C6_Step]_vars

(* C7: every response carries a non-empty X-Request-ID header, set before  *)
(* any handler ran; on an error response it equals error.requestId.        *)
C7_RequestIdOnEveryResponse ==
    \A s \in Connections :
        LET r == req[s] IN
        /\ r.pc \in {"idle", "arrived"} => r.res = NoResponse
        /\ r.pc \notin {"idle", "arrived"} =>
              /\ r.header # <<>>
              /\ Len(r.header) > 0
              /\ r.header = r.id
        /\ (r.pc = "done" /\ r.res.body.kind = "error") =>
              r.res.body.error.requestId = r.header

\* an error response whose id has an empty random part
C7_Witness ==
    \E s \in Connections :
        /\ req[s].pc = "done"
        /\ req[s].res.status = 500
        /\ req[s].res.body.kind = "error"
        /\ req[s].header = <<"2", "-">>
        /\ req[s].res.body.error.requestId = <<"2", "-">>

(* C8: a request whose method and path match no route is answered 404 in   *)
(* the error envelope: message starting "Route not found", statusCode 404, *)
(* requestId the request's correlation identifier.                         *)
IsUnmatchedRequest(r) == r.method # "GET" \/ Len(r.url) > 1

C8_UnmatchedRouteIs404 ==
    \A s \in Connections :
        LET r == req[s] IN
        (r.pc \notin {"idle", "arrived"} /\ IsUnmatchedRequest(r)) =>
            /\ r.loads = 0
            /\ r.pc \in {"routing", "done"}
            /\ r.pc = "done" =>
                  /\ r.res.status = 404
                  /\ r.res.body.kind = "error"
                  /\ r.res.body.error.message.text = "Route not found: "
                  /\ r.res.body.error.statusCode = 404
                  /\ r.res.body.error.requestId = r.id

\* a POST to the path of a stored record
C8_Witness ==
    \E s \in Connections :
        /\ req[s].pc = "done"
        /\ req[s].method = "POST"
        /\ req[s].url = <<GuidLower>>
        /\ req[s].res.status = 404
        /\ req[s].res.body.error.message =
              Message("Route not found: ", <<"POST", " ", "/">> \o GuidLower)

(* C9: GET /health is answered 200 with status "ok" whatever the dataset   *)
(* file is: the health handler never invokes the Data Loader and never     *)
(* answers with an error.                                                  *)
C9_HealthIsAlwaysOk ==
    \A s \in Connections :
        LET r == req[s] IN
        (r.pc \notin {"idle"} /\ IsHealthRequest(r)) =>
            /\ r.loads = 0
            /\ r.pc \in {"arrived", "routing", "done"}
            /\ r.pc = "done" =>
                  /\ r.res.status = 200
                  /\ r.res.body.kind = "health"
                  /\ r.res.body.status = "ok"

\* a health response while the dataset file is missing
C9_Witness ==
    \E s \in Connections :
        /\ req[s].pc = "done"
        /\ IsHealthRequest(req[s])
        /\ req[s].res.status = 200
        /\ req[s].res.body.kind = "health"
        /\ ~file.exists

(* C10: every load reads the file afresh: the response of a request is     *)
(* the answer to the contents of the file when its read settles, so a      *)
(* request that arrives after an edit answers from the edited contents.    *)
C10_Step ==
    \A s \in Connections :
        LET r == req[s]
            res == req'[s].res
        IN (Completes(s) /\ req'[s].loads > 0) =>
            /\ ~file.exists => res.status = 500
            /\ (IsDataset(file) /\ IsListRequest(r)) =>
                  /\ res.status = 200
                  /\ res.body.value.items = RecordsOnDisk(file)
            /\ (IsDataset(file) /\ IsItemRequest(r)) =>
                  IF MatchesOnDisk(file, r.url[1]) = {}
                  THEN res.status = 404
                  ELSE /\ res.status = 200
                       /\ \E i \in MatchesOnDisk(file, r.url[1]) :
                             res.body.value = RecordsOnDisk(file)[i]

C10_FreshReadOnEveryLoad == [][C10_Step]_vars

\* a request that arrived after an edit lists the edited dataset
C10_Witness ==
    \E s \in Connections :
        /\ req[s].pc = "done"
        /\ req[s].afterEdit
        /\ IsListRequest(req[s])
        /\ file = [exists |-> TRUE, text |-> <<LBracket, Record2, RBracket>>]
        /\ req[s].res.status = 200
        /\ req[s].res.body.value.items = <<ObjectValue(GuidLower, "s2")>>
        /\ req[s].res.body.value.items
              # RecordsOnDisk([exists |-> TRUE, text |-> InitialText])

(* C11: the Identifier Validator accepts a value if and only if it is a   *)
(* string of exactly 36 characters in the 8-4-4-4-12 layout of hexadecimal *)
(* digits of either case separated by hyphens; the empty string, a string  *)
(* that is too short, lacks a hyphen or holds a letter such as g, and a    *)
(* value that is not a string are rejected.                                *)
C11_AcceptsExactlyTheLayout ==
    probe.result # "none" =>
        (probe.result = "accepted" <=>
            (probe.arg.type = "string"
               /\ WellFormedIdentifier(probe.arg.chars)))

\* a non-string whose string form has the layout was rejected
C11_Witness ==
    /\ probe.result = "rejected"
    /\ probe.arg.type # "string"
    /\ WellFormedIdentifier(probe.arg.chars)
    /\ probe.arg.chars # GuidLower
    /\ probe.arg.chars # GuidUpper

(* C12: on SIGTERM the server closes its listener and the process exits   *)
(* only after every in-flight request has its response: no request that    *)
(* was accepted before the signal is aborted, no new request is accepted   *)
(* after the signal, and exit does not happen while a request is in        *)
(* flight.                                                                 *)
InFlight(r) == r.pc \in {"arrived", "routing", "getAllData", "getItemByGuid"}

\* exit only when nothing is in flight, and nothing in flight is dropped
\* without a response
C12_Drain ==
    /\ (server # "exited" /\ server' = "exited") =>
          \A c \in Connections : ~InFlight(req[c]) /\ ~req[c].open
    /\ \A c \in Connections :
          InFlight(req[c]) =>
              /\ req'[c].open
              /\ InFlight(req'[c]) \/ (req'[c].pc = "done"
                                        /\ req'[c].res # NoResponse)

\* the claim as stated: no new request after the signal
C12_OriginalStep ==
    /\ C12_Drain
    /\ \A c \in Connections :
          server # "listening" => ~(~InFlight(req[c]) /\ InFlight(req'[c]))

C12_NoRequestAfterSignal == [][C12_OriginalStep]_vars

\* amended: no new connection after the signal
C12_AmendedStep ==
    /\ C12_Drain
    /\ \A c \in Connections :
          server # "listening" => ~(~req[c].open /\ req'[c].open)

C12_NoConnectionAfterSignal == [][C12_AmendedStep]_vars

\* after the signal, a request accepted before it is still in flight, and
\* the process has not exited
C12_Witness ==
    /\ server = "closing"
    /\ req["c1"].pc = "getAllData"
    /\ ~req["c1"].afterSignal
    /\ ~req["c2"].open

(* C13: the Error Responder is a function of the error alone: the status  *)
(* is the error's status code when it has one and 500 otherwise, the       *)
(* message is the error's message or "Internal server error" when it has   *)
(* none, the body is {error: {message, statusCode, requestId}} with        *)
(* error.statusCode the HTTP status; every error raised in the list and    *)
(* get-by-identifier handlers goes through it, and these handlers write no *)
(* error response themselves.                                              *)
C13_ErrorResponder ==
    \A c \in Connections :
        LET r == req[c]
            e == r.caught.error
        IN r.pc = "done" =>
            /\ r.caught.thrown =>
                  /\ r.res.status = IF e.statusCode \in {400, 404, 500, 503}
                                    THEN e.statusCode ELSE 500
                  /\ r.res.body.kind = "error"
                  /\ DOMAIN r.res.body.error =
                        {"message", "statusCode", "requestId"}
                  /\ r.res.body.error.message =
                        IF e.message.text = "" /\ e.message.arg = <<>>
                        THEN [text |-> "Internal server error", arg |-> <<>>]
                        ELSE e.message
                  /\ r.res.body.error.statusCode = r.res.status
                  /\ r.res.body.error.requestId = r.id
            /\ (~r.caught.thrown /\ (IsListRequest(r) \/ IsItemRequest(r))) =>
                  /\ r.res.status = 200
                  /\ r.res.body.kind = "json"

\* an error without status code and without message was answered
C13_Witness ==
    \E c \in Connections :
        /\ req[c].pc = "done"
        /\ req[c].caught.thrown
        /\ req[c].caught.error.statusCode = Undefined
        /\ req[c].caught.error.message = NoMessage
        /\ req[c].res.status = 500
        /\ req[c].res.body.error.message.text = "Internal server error"
        /\ req[c].res.body.error.statusCode = 500

(* C14: concurrent requests share no mutable state. Under any interleaving *)
(* of requests in flight, a step of one request changes the context of no  *)
(* other request, a request keeps its own correlation id until its         *)
(* response is sent, and its response carries that id and is determined by *)
(* its own path and by the contents of the file at its own read: no        *)
(* response holds the identifier, the record or the error of another       *)
(* request.                                                                *)
C14_Step ==
    /\ Cardinality({c \in Connections : req'[c] # req[c]}) <= 1
    /\ \A c \in Connections :
          (req[c].pc \notin {"idle", "arrived"} /\ req'[c].pc # "idle") =>
              /\ req'[c].id = req[c].id
              /\ req'[c].header = req[c].id
              /\ req'[c].url = req[c].url
    /\ \A c \in Connections :
          LET r == req[c]
              res == req'[c].res
          IN Completes(c) =>
              /\ res.body.kind = "error" => res.body.error.requestId = r.id
              /\ (IsItemRequest(r) /\ ~WellFormedIdentifier(r.url[1])) =>
                    /\ res.status = 400
                    /\ res.body.error.message =
                          [text |-> "Invalid GUID format: ", arg |-> r.url[1]]
              /\ (req'[c].loads > 0 /\ ~file.exists) => res.status = 500
              /\ (req'[c].loads > 0 /\ IsDataset(file) /\ IsListRequest(r)) =>
                    /\ res.status = 200
                    /\ res.body.value.items = RecordsOnDisk(file)
              /\ (req'[c].loads > 0 /\ IsDataset(file) /\ IsItemRequest(r)) =>
                    IF MatchesOnDisk(file, r.url[1]) = {}
                    THEN /\ res.status = 404
                         /\ res.body.error.message =
                               [text |-> "Item not found: ", arg |-> r.url[1]]
                    ELSE /\ res.status = 200
                         /\ res.body.value.guid = r.url[1]
                         /\ \E i \in MatchesOnDisk(file, r.url[1]) :
                               res.body.value = RecordsOnDisk(file)[i]

C14_NoSharedState == [][C14_Step]_vars

\* two requests were suspended at their reads together; one was answered
\* the list and the other the 404 of its own identifier, each under its
\* own correlation id
C14_Witness ==
    /\ req["c1"].pc = "done"
    /\ req["c2"].pc = "done"
    /\ req["c1"].overlap \/ req["c2"].overlap
    /\ req["c1"].id # req["c2"].id
    /\ IsListRequest(req["c1"])
    /\ req["c1"].res.status = 200
    /\ req["c2"].url = <<GuidZero>>
    /\ req["c2"].res.status = 404
    /\ req["c2"].res.body.error.requestId = req["c2"].id
    /\ req["c2"].res.body.error.message.arg = GuidZero

====
